---- MODULE Spec2Model ----
(***************************************************************************)
(* Model of boost::stable_marriage (include/boost/graph/stable_marriage.hpp)*)
(* run on a directed graph of "relations" between people.                  *)
(*                                                                         *)
(* One behaviour is one call of stable_marriage():                         *)
(*   pc = "build"        the caller has declared an empty graph            *)
(*   pc = "start"        before the call of is_bipartite (line 101)        *)
(*   pc = "partitioned"  is_bipartite has returned, lines 112-143 to come  *)
(*   pc = "loop"         at the head of the while loop of line 144         *)
(*   pc = "done"         the while loop has been left (line 263)           *)
(*   pc = "undefined"    the run dereferenced the end iterator (line 224)  *)
(*                       and the build crashed                             *)
(* A relation (edge) is the pair <<source, target>>; the out-edges of a    *)
(* vertex are iterated in ascending order of their target, the order in    *)
(* which the test and the example add them.                                *)
(***************************************************************************)
EXTENDS Integers, Sequences, FiniteSets, TLC

VARIABLES
    num_vertices,         \* boost::num_vertices(g)
    edges,                \* the relations of g, pairs <<source, target>>
    preference_map,       \* relation -> score (in)
    compare,              \* the injected comparison policy (in)
    seed_color,           \* the label the partitioner gives to a seed
    color_map,            \* vertex -> "white" | "black" (out)
    is_bipartite_result,  \* what is_bipartite returned: "none" before the call
    engaged_to_map,       \* relation -> BOOLEAN (in/out)
    has_proposed_map,     \* relation -> BOOLEAN (local)
    free_map,             \* vertex -> BOOLEAN (local)
    men_iterator,         \* position of the vertex iterator of line 142
    every_man_is_engaged, \* loop flag of line 141
    last,                 \* what the last iteration of the loop did
    iterations,           \* how many times the body of the loop has run
    proposals,            \* how many times lines 196-199 have run
    previous,             \* what an earlier call on the same graph left
    pc

vars == <<num_vertices, edges, preference_map, compare, seed_color, color_map,
          is_bipartite_result, engaged_to_map, has_proposed_map, free_map,
          men_iterator, every_man_is_engaged, last, iterations, proposals,
          previous, pc>>

inputs == <<num_vertices, edges, preference_map, compare, seed_color>>

-----------------------------------------------------------------------------
(* Bounds of the inputs.                                                   *)

\* scores of the general three-vertex graphs range over -1 .. MaxPref
MaxPref == 1
\* scores of the complete two-by-two graphs range over 1 .. DenseMaxPref
DenseMaxPref == 2
\* scores of the three-vertex graphs of the liveness check: 0 .. LiveMaxPref
LiveMaxPref == 1
\* the counters of iterations and proposals are kept up to MaxCount
MaxCount == 14

\* double current_preference = 0;
InitialPreference == 0

Vertices == 0 .. (num_vertices - 1)

Colors == {"white", "black"}

Comparators == {"greater", "greater_equal", "less"}

\* Opposite that gives a neighbour the same label
OppositeSame(c) == c

Opposite(c) == IF c = "white" THEN "black" ELSE "white"

Pairs(V) == {e \in V \X V : e[1] # e[2]}

-----------------------------------------------------------------------------
(* The graph accessors used by the algorithm.                              *)

Min(S) == CHOOSE x \in S : \A y \in S : x <= y

\* the elements of S in ascending order
Ascending(S) ==
    [i \in 1 .. Cardinality(S) |->
        CHOOSE x \in S : Cardinality({y \in S : y < x}) = i - 1]

\* edge(u, v, g).second
HasEdge(u, v) == <<u, v>> \in edges

\* targets of boost::out_edges(v, g), in iteration order
OutEdges(v) == Ascending({w \in Vertices : HasEdge(v, w)})

\* Compare with every policy made non-strict
CompareOrEqual(a, b) ==
    CASE compare = "greater"       -> a >= b
      [] compare = "greater_equal" -> a >= b
      [] compare = "less"          -> a <= b

\* compare(a, b)
Compare(a, b) ==
    CASE compare = "greater"       -> a > b
      [] compare = "greater_equal" -> a >= b
      [] compare = "less"          -> a < b

-----------------------------------------------------------------------------
(* is_bipartite: two-colouring of the underlying undirected graph.  A seed *)
(* is the lowest uncoloured vertex; "none" marks a vertex not reached yet. *)

Adjacent(E, u, v) == <<u, v>> \in E \/ <<v, u>> \in E

\* one step of the colouring: stop at an edge whose ends carry the same
\* label, else label a neighbour of a labelled vertex with the opposite
\* label, else seed the lowest unlabelled vertex, else succeed
ColorizeStep(V, E, seed, st) ==
    LET col       == st.col
        colored   == {v \in V : col[v] # "none"}
        conflict  == \E u \in colored, v \in colored :
                        Adjacent(E, u, v) /\ col[u] = col[v]
        frontier  == {v \in V \ colored :
                        \E u \in colored : Adjacent(E, u, v)}
    IN  IF st.state # "running" THEN st
        ELSE IF conflict THEN [st EXCEPT !.state = "failed"]
        ELSE IF frontier # {} THEN
            LET v == Min(frontier)
                u == Min({x \in colored : Adjacent(E, x, v)})
            IN  [st EXCEPT !.col = [col EXCEPT ![v] = Opposite(col[u])]]
        ELSE IF colored # V THEN
            [st EXCEPT !.col = [col EXCEPT ![Min(V \ colored)] = seed]]
        ELSE [st EXCEPT !.state = "succeeded"]

\* the colouring run to its end: at most one step per vertex and a last one
\* (the value of the step before is bound once, by the set constructor)
Colorize(V, E, seed) ==
    LET run[k \in 0 .. (Cardinality(V) + 1)] ==
            IF k = 0 THEN [state |-> "running", col |-> [v \in V |-> "none"]]
            ELSE CHOOSE st \in {ColorizeStep(V, E, seed, before) :
                                   before \in {run[k - 1]}} : TRUE
        end == run[Cardinality(V) + 1]
    IN  [ok |-> end.state = "succeeded", col |-> end.col]

\* the labels left in the caller's storage: what was written, over what
\* the storage held before
IsBipartite(V, E, seed, before) ==
    CHOOSE out \in
        {[ok  |-> r.ok,
          col |-> [v \in V |-> IF r.col[v] = "none" THEN before[v]
                               ELSE r.col[v]]] : r \in {Colorize(V, E, seed)}} : TRUE

-----------------------------------------------------------------------------
(* Inputs: the graphs, scores and comparators a caller may pass.  An input *)
(* is a graph (n vertices, relations e), its scores p, and the comparators *)
(* cmp it is passed with.                                                  *)

\* every graph on three vertices, every score in lowest .. highest
SmallInputs(lowest, highest) ==
    UNION {{[n |-> 3, e |-> E, p |-> p, cmp |-> Comparators] :
                p \in [E -> lowest .. highest]} :
              E \in SUBSET Pairs(0 .. 2)}

\* two people on each side, every relation present in both directions; the
\* scores are ranks 1 .. highest, negated when a lower score is better
DenseEdges == ({0, 1} \X {2, 3}) \cup ({2, 3} \X {0, 1})

DenseInputs(highest) ==
    {[n |-> 4, e |-> DenseEdges, p |-> rank,
      cmp |-> {"greater", "greater_equal"}] :
        rank \in [DenseEdges -> 1 .. highest]}
    \cup
    {[n |-> 4, e |-> DenseEdges, p |-> [r \in DenseEdges |-> 0 - rank[r]],
      cmp |-> {"less"}] :
        rank \in [DenseEdges -> 1 .. highest]}

\* test/stable_marriage_test.cpp, three_men_three_women
men_preferences   == <<<<1, 4, 3>>, <<2, 5, 2>>, <<4, 3, 6>>>>
women_preferences == <<<<2, 2, 3>>, <<4, 3, 5>>, <<2, 3, 2>>>>

TestEdges == ((0 .. 2) \X (3 .. 5)) \cup ((3 .. 5) \X (0 .. 2))

TestInput ==
    [n |-> 6,
     e |-> TestEdges,
     p |-> [r \in TestEdges |->
              IF r[1] <= 2 THEN men_preferences[r[1] + 1][r[2] - 2]
                           ELSE women_preferences[r[1] - 2][r[2] + 1]],
     cmp |-> Comparators]

\* the graph of the test with the rows of women_preferences taken in reverse
\* order, so that a man is displaced while another couple is engaged
ReversedTestInput ==
    [n |-> 6,
     e |-> TestEdges,
     p |-> [r \in TestEdges |->
              IF r[1] <= 2 THEN men_preferences[r[1] + 1][r[2] - 2]
                           ELSE women_preferences[6 - r[1]][r[2] + 1]],
     cmp |-> Comparators]

mutually_engaged == {<<0, 4>>, <<1, 5>>, <<2, 3>>}

NoStep == [kind |-> "none", man |-> -1, woman |-> -1, prev |-> -1]

\* no call of stable_marriage has returned yet
NoCall == [called |-> FALSE, engaged_to_map |-> << >>, color_map |-> << >>,
           restart |-> << >>]

\* graph_t g; the property maps; the comparator the caller will pass
Init ==
    /\ num_vertices = 0
    /\ edges = {}
    /\ preference_map = << >>
    /\ engaged_to_map = << >>
    /\ has_proposed_map = << >>
    /\ color_map = << >>
    /\ free_map = << >>
    /\ compare \in Comparators
    /\ seed_color \in Colors
    /\ is_bipartite_result = "none"
    /\ men_iterator = 0
    /\ every_man_is_engaged = FALSE
    /\ last = NoStep
    /\ iterations = 0
    /\ proposals = 0
    /\ previous = NoCall
    /\ pc = "build"

\* the graphs of the safety checks, and those of the liveness check (whose
\* complete two-by-two graphs have the two ranks 1 and 2)
AllInputs ==
    SmallInputs(-1, MaxPref) \cup DenseInputs(DenseMaxPref)
        \cup {TestInput, ReversedTestInput}
LiveInputs ==
    SmallInputs(0, LiveMaxPref) \cup DenseInputs(2) \cup {TestInput}

\* the caller adds the vertices and the relations and sets the scores
\* (test lines 80-95); the maps hold what the caller left in them
BuildGraph(Inputs) ==
    /\ pc = "build"
    /\ \E in \in Inputs :
          /\ compare \in in.cmp
          /\ num_vertices' = in.n
          /\ edges' = in.e
          /\ preference_map' = in.p
          /\ engaged_to_map' \in
                IF in.n = 3 THEN {[r \in in.e |-> FALSE]}
                            ELSE {[r \in in.e |-> FALSE], [r \in in.e |-> TRUE]}
          /\ has_proposed_map' = [r \in in.e |-> FALSE]
          /\ color_map' = [v \in 0 .. (in.n - 1) |-> "white"]
          /\ free_map' = [v \in 0 .. (in.n - 1) |-> TRUE]
    /\ pc' = "start"
    /\ UNCHANGED previous
    /\ UNCHANGED <<compare, seed_color, is_bipartite_result, men_iterator,
                   every_man_is_engaged, last, iterations, proposals>>

-----------------------------------------------------------------------------
(* Lines 98-143.                                                           *)

\* is_bipartite(g, vertex_index_map, color_map); the result is discarded
Partition ==
    /\ pc = "start"
    /\ \E r \in {IsBipartite(Vertices, edges, seed_color, color_map)} :
           /\ color_map' = r.col
           /\ is_bipartite_result' = IF r.ok THEN "bipartite" ELSE "not_bipartite"
    /\ pc' = "partitioned"
    /\ UNCHANGED previous
    /\ UNCHANGED <<inputs, engaged_to_map, has_proposed_map, free_map,
                   men_iterator, every_man_is_engaged, last, iterations,
                   proposals>>

\* Initialize that leaves engaged_to_map as the caller passed it
InitializeKeepsEngaged ==
    /\ pc = "partitioned"
    /\ free_map' = [v \in Vertices |-> TRUE]
    /\ has_proposed_map' = [r \in edges |-> FALSE]
    /\ every_man_is_engaged' = FALSE
    /\ men_iterator' = 0
    /\ pc' = "loop"
    /\ UNCHANGED previous
    /\ UNCHANGED <<inputs, color_map, is_bipartite_result, last, iterations,
                   proposals, engaged_to_map>>

\* free_vector, has_proposed_internal_map, engaged_to_map, the loop variables
Initialize ==
    /\ pc = "partitioned"
    /\ free_map' = [v \in Vertices |-> TRUE]
    /\ engaged_to_map' = [r \in edges |-> FALSE]
    /\ has_proposed_map' = [r \in edges |-> FALSE]
    /\ every_man_is_engaged' = FALSE
    /\ men_iterator' = 0
    /\ pc' = "loop"
    /\ UNCHANGED previous
    /\ UNCHANGED <<inputs, color_map, is_bipartite_result, last, iterations,
                   proposals>>

-----------------------------------------------------------------------------
(* One iteration of the while loop of line 144.                            *)

\* lines 148-153: the vertex the iterator stops at, num_vertices for the end
NextMan(it) ==
    Min({v \in it .. (num_vertices - 1) : color_map[v] = "black" /\ free_map[v]}
        \cup {num_vertices})

\* CanEngage without the test of the reverse relation
CanEngageAlways(woman, man) == TRUE

\* lines 180-181: the woman can engage with that man
CanEngage(woman, man) == HasEdge(woman, man)

\* MarkProposed that forgets the proposal
MarkProposedNot(m, man, woman) == m

\* line 199
MarkProposed(m, man, woman) == [m EXCEPT ![<<man, woman>>] = TRUE]

\* SetEngaged that writes true whatever the value
SetEngagedAlways(m, man, woman, value) ==
    [m EXCEPT ![<<man, woman>>] = TRUE, ![<<woman, man>>] = TRUE]

\* SetEngaged that writes the man's relation only
SetEngagedOneWay(m, man, woman, value) ==
    [m EXCEPT ![<<man, woman>>] = value]

\* lines 203-206, 234-241, 245-250: both relations of a couple
SetEngaged(m, man, woman, value) ==
    [m EXCEPT ![<<man, woman>>] = value, ![<<woman, man>>] = value]

\* lines 165-191: scan of the out-edges of man, acc is the four locals
\* the body of the for loop, on the relation man -> current_woman
ScanRelation(man, current_woman, acc) ==
    LET relation == <<man, current_woman>>
    IN  IF /\ ~has_proposed_map[relation]
           /\ CanEngage(current_woman, man)
           /\ Compare(preference_map[relation], acc.current_preference)
        THEN [current_preference |-> preference_map[relation],
              current_prefered_woman |-> current_woman,
              man_may_propose |-> TRUE]
        ELSE acc

ScanRelations(man, targets, start) ==
    LET scan[i \in 0 .. Len(targets)] ==
            IF i = 0 THEN start
            ELSE CHOOSE acc \in {ScanRelation(man, targets[i], before) :
                                    before \in {scan[i - 1]}} : TRUE
    IN  scan[Len(targets)]

BestRelation(man) ==
    ScanRelations(man, OutEdges(man),
        [current_preference |-> InitialPreference,
         current_prefered_woman |-> -1,
         man_may_propose |-> FALSE])

\* lines 217-224: targets of the engaged out-edges of woman, in order; the
\* loop stops at the first one and runs off the end when there is none
EngagedTargets(woman) ==
    SelectSeq(OutEdges(woman), LAMBDA t : engaged_to_map[<<woman, t>>])

\* WomanPrefers with the comparison reversed
WomanPrefersLess(woman, man, prev_man) ==
    preference_map[<<woman, man>>] < preference_map[<<woman, prev_man>>]

\* lines 228-232: the woman's comparison of the new man with the previous one
WomanPrefers(woman, man, prev_man) ==
    preference_map[<<woman, man>>] > preference_map[<<woman, prev_man>>]

Step(kind, man, woman, prev) ==
    [kind |-> kind, man |-> man, woman |-> woman, prev |-> prev]

\* the counters stop at MaxCount
Bump(n) == IF n < MaxCount THEN n + 1 ELSE n

\* one more run of the body of the loop, with or without lines 196-199
Iterate(proposing) ==
    /\ iterations' = Bump(iterations)
    /\ proposals' = IF proposing THEN Bump(proposals) ELSE proposals

\* FreeAfterEngage that forgets the woman
FreeAfterEngageManOnly(m, man, woman) == [m EXCEPT ![man] = FALSE]

\* lines 207-208
FreeAfterEngage(m, man, woman) == [m EXCEPT ![woman] = FALSE, ![man] = FALSE]

\* FreeAfterDisplace that forgets to free the previous man
FreeAfterDisplaceKeepsPrev(m, man, woman, prev_man) ==
    [m EXCEPT ![woman] = FALSE, ![man] = FALSE]

\* lines 242-243 and 251
FreeAfterDisplace(m, man, woman, prev_man) ==
    [[m EXCEPT ![woman] = FALSE, ![man] = FALSE] EXCEPT ![prev_man] = TRUE]

\* lines 155-158
EveryManIsEngaged ==
    /\ pc = "loop"
    /\ Iterate(FALSE)
    /\ NextMan(men_iterator) = num_vertices
    /\ men_iterator' = num_vertices
    /\ every_man_is_engaged' = TRUE
    /\ last' = Step("exit", -1, -1, -1)
    /\ pc' = "done"
    /\ UNCHANGED previous
    /\ UNCHANGED <<inputs, color_map, is_bipartite_result, engaged_to_map,
                   has_proposed_map, free_map>>

\* CannotPropose that retires the man by repainting him
CannotProposeRecolor ==
    /\ pc = "loop"
    /\ Iterate(FALSE)
    /\ \E man \in {NextMan(men_iterator)} :
           /\ man # num_vertices
           /\ ~BestRelation(man).man_may_propose
           /\ men_iterator' = man
           /\ color_map' = [color_map EXCEPT ![man] = "white"]
           /\ last' = Step("exhaust", man, -1, -1)
    /\ UNCHANGED previous
    /\ UNCHANGED <<inputs, free_map, is_bipartite_result, engaged_to_map,
                   has_proposed_map, every_man_is_engaged, pc>>

\* lines 255-260
CannotPropose ==
    /\ pc = "loop"
    /\ Iterate(FALSE)
    /\ \E man \in {NextMan(men_iterator)} :
           /\ man # num_vertices
           /\ ~BestRelation(man).man_may_propose
           /\ men_iterator' = man
           /\ free_map' = [free_map EXCEPT ![man] = FALSE]
           /\ last' = Step("exhaust", man, -1, -1)
    /\ UNCHANGED previous
    /\ UNCHANGED <<inputs, color_map, is_bipartite_result, engaged_to_map,
                   has_proposed_map, every_man_is_engaged, pc>>

\* lines 196-209
Engage ==
    /\ pc = "loop"
    /\ Iterate(TRUE)
    /\ \E man \in {NextMan(men_iterator)} :
           /\ man # num_vertices
           /\ BestRelation(man).man_may_propose
           /\ \E woman \in {BestRelation(man).current_prefered_woman} :
                  /\ free_map[woman]
                  /\ men_iterator' = man
                  /\ has_proposed_map' = MarkProposed(has_proposed_map, man, woman)
                  /\ engaged_to_map' = SetEngaged(engaged_to_map, man, woman, TRUE)
                  /\ free_map' = FreeAfterEngage(free_map, man, woman)
                  /\ last' = Step("engage", man, woman, -1)
    /\ UNCHANGED previous
    /\ UNCHANGED <<inputs, color_map, is_bipartite_result,
                   every_man_is_engaged, pc>>

\* lines 210-252, the new man is better
Displace ==
    /\ pc = "loop"
    /\ Iterate(TRUE)
    /\ \E man \in {NextMan(men_iterator)} :
           /\ man # num_vertices
           /\ BestRelation(man).man_may_propose
           /\ \E woman \in {BestRelation(man).current_prefered_woman} :
                  /\ ~free_map[woman]
                  /\ EngagedTargets(woman) # << >>
                  /\ \E prev_man \in {Head(EngagedTargets(woman))} :
                         /\ WomanPrefers(woman, man, prev_man)
                         /\ men_iterator' = man
                         /\ has_proposed_map' =
                               MarkProposed(has_proposed_map, man, woman)
                         /\ engaged_to_map' =
                               SetEngaged(SetEngaged(engaged_to_map, man, woman, TRUE),
                                          prev_man, woman, FALSE)
                         /\ free_map' =
                               FreeAfterDisplace(free_map, man, woman, prev_man)
                         /\ last' = Step("displace", man, woman, prev_man)
    /\ UNCHANGED previous
    /\ UNCHANGED <<inputs, color_map, is_bipartite_result,
                   every_man_is_engaged, pc>>

\* Reject that also retires the rejected man
RejectRetiresMan ==
    /\ pc = "loop"
    /\ Iterate(TRUE)
    /\ \E man \in {NextMan(men_iterator)} :
           /\ man # num_vertices
           /\ BestRelation(man).man_may_propose
           /\ \E woman \in {BestRelation(man).current_prefered_woman} :
                  /\ ~free_map[woman]
                  /\ EngagedTargets(woman) # << >>
                  /\ \E prev_man \in {Head(EngagedTargets(woman))} :
                         /\ ~WomanPrefers(woman, man, prev_man)
                         /\ men_iterator' = man
                         /\ has_proposed_map' =
                               MarkProposed(has_proposed_map, man, woman)
                         /\ free_map' = [free_map EXCEPT ![man] = FALSE]
                         /\ last' = Step("reject", man, woman, prev_man)
    /\ UNCHANGED previous
    /\ UNCHANGED <<inputs, color_map, is_bipartite_result, engaged_to_map,
                   every_man_is_engaged, pc>>

\* lines 210-233, the new man is not better
Reject ==
    /\ pc = "loop"
    /\ Iterate(TRUE)
    /\ \E man \in {NextMan(men_iterator)} :
           /\ man # num_vertices
           /\ BestRelation(man).man_may_propose
           /\ \E woman \in {BestRelation(man).current_prefered_woman} :
                  /\ ~free_map[woman]
                  /\ EngagedTargets(woman) # << >>
                  /\ \E prev_man \in {Head(EngagedTargets(woman))} :
                         /\ ~WomanPrefers(woman, man, prev_man)
                         /\ men_iterator' = man
                         /\ has_proposed_map' =
                               MarkProposed(has_proposed_map, man, woman)
                         /\ last' = Step("reject", man, woman, prev_man)
    /\ UNCHANGED previous
    /\ UNCHANGED <<inputs, color_map, is_bipartite_result, engaged_to_map,
                   free_map, every_man_is_engaged, pc>>

\* lines 221-224 when the woman is not free and none of her out-edges is
\* engaged: target(*first, g) reads through the end iterator.  The read
\* either faults, or yields some vertex; when the relations between the
\* woman and that vertex exist the run goes on with it as prev_man.
RunPastTheEnd ==
    /\ pc = "loop"
    /\ Iterate(TRUE)
    /\ \E man \in {NextMan(men_iterator)} :
           /\ man # num_vertices
           /\ BestRelation(man).man_may_propose
           /\ \E woman \in {BestRelation(man).current_prefered_woman} :
                  /\ ~free_map[woman]
                  /\ EngagedTargets(woman) = << >>
                  /\ men_iterator' = man
                  /\ has_proposed_map' = MarkProposed(has_proposed_map, man, woman)
                  /\ \/ /\ pc' = "undefined"
                        /\ last' = Step("fault", man, woman, -1)
                        /\ UNCHANGED <<engaged_to_map, free_map>>
                     \/ \E prev_man \in Vertices :
                          /\ HasEdge(woman, prev_man)
                          /\ HasEdge(prev_man, woman)
                          /\ pc' = pc
                          /\ IF WomanPrefers(woman, man, prev_man)
                             THEN /\ engaged_to_map' =
                                        SetEngaged(SetEngaged(engaged_to_map,
                                                              man, woman, TRUE),
                                                   prev_man, woman, FALSE)
                                  /\ free_map' =
                                        FreeAfterDisplace(free_map, man, woman,
                                                          prev_man)
                                  /\ last' = Step("displace", man, woman, prev_man)
                             ELSE /\ UNCHANGED <<engaged_to_map, free_map>>
                                  /\ last' = Step("reject", man, woman, prev_man)
    /\ UNCHANGED previous
    /\ UNCHANGED <<inputs, color_map, is_bipartite_result, every_man_is_engaged>>

\* the caller, after stable_marriage has returned, calls it again on the same
\* graph, scores, comparator and maps; engaged_to_map holds the output of the
\* first call, or what the caller has written into it since
CallAgain ==
    /\ pc = "done"
    /\ ~previous.called
    /\ engaged_to_map' \in
          IF num_vertices = 3
          THEN {engaged_to_map}
          ELSE {engaged_to_map, [r \in edges |-> FALSE], [r \in edges |-> TRUE]}
    /\ previous' = [called |-> TRUE, engaged_to_map |-> engaged_to_map,
                    color_map |-> color_map, restart |-> engaged_to_map']
    /\ is_bipartite_result' = "none"
    /\ last' = NoStep
    /\ iterations' = 0
    /\ proposals' = 0
    /\ pc' = "start"
    /\ UNCHANGED <<inputs, color_map, has_proposed_map, free_map, men_iterator,
                   every_man_is_engaged>>

Next ==
    \/ BuildGraph(AllInputs)
    \/ Partition
    \/ Initialize
    \/ EveryManIsEngaged
    \/ CannotPropose
    \/ Engage
    \/ Displace
    \/ Reject
    \/ RunPastTheEnd
    \/ CallAgain

Spec == Init /\ [][Next]_vars

LiveNext ==
    \/ BuildGraph(LiveInputs)
    \/ Partition
    \/ Initialize
    \/ EveryManIsEngaged
    \/ CannotPropose
    \/ Engage
    \/ Displace
    \/ Reject
    \/ RunPastTheEnd

\* the function runs: a step that can be taken is taken
LiveSpec == Init /\ [][LiveNext]_vars /\ WF_vars(LiveNext)

-----------------------------------------------------------------------------
TypeOK ==
    /\ pc \in {"build", "start", "partitioned", "loop", "done", "undefined"}
    /\ men_iterator \in 0 .. num_vertices
    /\ color_map \in [Vertices -> Colors]
    /\ free_map \in [Vertices -> BOOLEAN]
    /\ engaged_to_map \in [edges -> BOOLEAN]
    /\ has_proposed_map \in [edges -> BOOLEAN]
    /\ iterations \in 0 .. MaxCount
    /\ proposals \in 0 .. iterations

-----------------------------------------------------------------------------
(* Vocabulary of the properties.                                           *)

Proposers == {v \in Vertices : color_map[v] = "black"}
Reviewers == {v \in Vertices : color_map[v] = "white"}

Bipartite == is_bipartite_result = "bipartite"
Finished  == pc = "done"
InLoop    == pc \in {"loop", "done"}

Reciprocal(u, v) == HasEdge(u, v) /\ HasEdge(v, u)
Engaged(u, v)    == HasEdge(u, v) /\ engaged_to_map[<<u, v>>]
Partners(v)      == {w \in Vertices : Engaged(v, w)}

\* a relation the proposer p can still use: not proposed through, reciprocal
Unexplored(p) ==
    {r \in Vertices : Reciprocal(p, r) /\ ~has_proposed_map[<<p, r>>]}

TwoColorable ==
    \E c \in [Vertices -> Colors] : \A r \in edges : c[r[1]] # c[r[2]]

\* every proposer and every reviewer have both relations, sides of equal size
CompleteBipartite ==
    /\ Bipartite
    /\ Cardinality(Proposers) = Cardinality(Reviewers)
    /\ \A p \in Proposers, r \in Reviewers : Reciprocal(p, r)

IsTestInput ==
    /\ num_vertices = TestInput.n
    /\ edges = TestInput.e
    /\ preference_map = TestInput.p
    /\ compare = "greater_equal"

-----------------------------------------------------------------------------
\* C1 (as claimed): when the run on a bipartite graph has finished, for every
\* engaged pair (p, r) with p a proposer and every other reviewer r2 that p
\* has a reciprocal relation with, p does not prefer r2 over r under the
\* injected comparator, or r2 does not prefer p over its own partner under
\* the same comparator (a reviewer without partner is read as not preferring).
Stability ==
    (Finished /\ Bipartite) =>
        \A p \in Proposers : \A r \in Partners(p) :
            \A r2 \in Vertices \ {r} :
                Reciprocal(p, r2) =>
                    \/ ~Compare(preference_map[<<p, r2>>], preference_map[<<p, r>>])
                    \/ \A q \in Partners(r2) :
                          ~Compare(preference_map[<<r2, p>>], preference_map[<<r2, q>>])

\* C2 (as claimed): on a complete bipartite graph with sides of equal size,
\* when the run has finished every agent has exactly one engaged relation.
Completeness ==
    (Finished /\ CompleteBipartite) =>
        \A v \in Vertices : Cardinality(Partners(v)) = 1

\* C3 (as claimed): when is_bipartite reports that the graph is not bipartite
\* the matching loop is never entered, no engaged flag is set and no proposal
\* is made.
NonBipartiteRejection ==
    is_bipartite_result = "not_bipartite" =>
        /\ pc \notin {"loop", "done", "undefined"}
        /\ \A r \in edges : ~has_proposed_map[r]

\* C4: on a bipartite graph the main loop reaches its terminal state: once
\* is_bipartite has answered "bipartite", the run eventually leaves the loop.
Termination == Bipartite ~> Finished

TerminationWitness ==
    Finished /\ Bipartite /\ last.kind = "exit" /\ \E r \in edges : has_proposed_map[r]

\* C5: between the iterations of the loop and at its end, the two relations
\* of every reciprocal pair carry the same engaged flag.
EngagementSymmetry ==
    InLoop =>
        \A r \in edges :
            HasEdge(r[2], r[1]) => engaged_to_map[r] = engaged_to_map[<<r[2], r[1]>>]

EngagementSymmetryWitness ==
    /\ pc = "loop"
    /\ last.kind = "displace"
    /\ Engaged(last.man, last.woman) /\ Engaged(last.woman, last.man)
    /\ Reciprocal(last.prev, last.woman) /\ ~Engaged(last.prev, last.woman)

\* C6: on the graph of the test three_men_three_women, with greater_equal,
\* the finished run has engaged = true on exactly the relations of the couples
\* (0,4), (1,5), (2,3), in both directions.
ConcreteScenario ==
    (IsTestInput /\ Finished) =>
        \A r \in edges :
            engaged_to_map[r] =
                (r \in mutually_engaged \/ <<r[2], r[1]>> \in mutually_engaged)

ConcreteScenarioWitness ==
    IsTestInput /\ Finished /\ Engaged(0, 4) /\ Engaged(5, 1)

\* C7: on every 2-colourable graph the partition succeeds, every vertex gets
\* one of the two labels, every relation joins two vertices of opposite
\* labels, and the men who propose are the black vertices.
PartitionCorrect ==
    (pc \notin {"build", "start"} /\ TwoColorable) =>
        /\ Bipartite
        /\ color_map \in [Vertices -> Colors]
        /\ \A r \in edges : color_map[r[1]] # color_map[r[2]]
        /\ \A r \in edges : has_proposed_map[r] => color_map[r[1]] = "black"

\* a 2-colourable graph with a relation and an isolated vertex
PartitionCorrectWitness ==
    /\ pc = "partitioned"
    /\ TwoColorable
    /\ edges # {}
    /\ \E v \in Vertices : \A w \in Vertices : ~Adjacent(edges, v, w)

\* C8: a relation of a proposer whose reverse relation does not exist is
\* never proposed through and never engaged, and the run on a bipartite graph
\* does not fault because of it.
NonReciprocalSkipped ==
    pc \in {"loop", "done", "undefined"} =>
        \A r \in edges :
            (color_map[r[1]] = "black" /\ ~HasEdge(r[2], r[1])) =>
                /\ ~has_proposed_map[r]
                /\ ~engaged_to_map[r]
                /\ Bipartite => pc # "undefined"

NonReciprocalSkippedWitness ==
    /\ Finished
    /\ Bipartite
    /\ \E r \in edges :
          /\ color_map[r[1]] = "black"
          /\ ~HasEdge(r[2], r[1])
          /\ Partners(r[1]) # {}

\* C9: a step of the matching loop leaves the vertices, the relations, the
\* scores and the labels as they are.
FrameEffect ==
    [][pc = "loop" =>
          UNCHANGED <<num_vertices, edges, preference_map, color_map>>]_vars

FrameEffectWitness ==
    /\ Finished
    /\ \E v \in Proposers : ~free_map[v] /\ Partners(v) = {}
    /\ \E v \in Proposers : Partners(v) # {}

\* C10 (as claimed): when the loop on a bipartite graph has stopped, no
\* proposer is marked free and still has a reciprocal relation it has not
\* proposed through.
LoopExitCondition ==
    (Finished /\ Bipartite) =>
        \A p \in Proposers : ~(free_map[p] /\ Unexplored(p) # {})

\* a is strictly better than b under the injected comparator
Better(a, b) == Compare(a, b) /\ ~Compare(b, a)

\* the relation the step from the current state to the next proposes through
Proposed == {r \in edges : ~has_proposed_map[r] /\ has_proposed_map'[r]}

\* C11 (as claimed): when a proposer p has proposed to a non-free reviewer r
\* whose partner was q, r has switched to p exactly when the score of r -> p
\* is strictly better than the score of r -> q under the injected comparator.
ReviewerDecision ==
    (pc = "loop" /\ Bipartite /\ last.kind \in {"displace", "reject"}) =>
        ((last.kind = "displace") <=>
            Better(preference_map[<<last.woman, last.man>>],
                   preference_map[<<last.woman, last.prev>>]))

\* C12 (as claimed): when the proposer the loop selects on a bipartite
\* graph has relations it has not proposed through and whose reverse relation
\* exists, the step proposes through one of them and none of the others has
\* a strictly better score under the injected comparator, whatever the
\* values of the scores are.
ProposalChoice ==
    [][(pc = "loop" /\ Bipartite) =>
          \A p \in Proposers :
              (p = NextMan(men_iterator) /\ Unexplored(p) # {}) =>
                  \E r \in Unexplored(p) :
                      /\ Proposed = {<<p, r>>}
                      /\ \A r2 \in Unexplored(p) :
                            ~Better(preference_map[<<p, r2>>],
                                    preference_map[<<p, r>>])]_vars

Max(S) == CHOOSE x \in S : \A y \in S : x >= y

\* the relations of p that tie with p -> r among those p can still use
Tied(p, r) ==
    {r2 \in Unexplored(p) :
        preference_map[<<p, r2>>] = preference_map[<<p, r>>]}

\* C13 (as claimed): a proposal goes to the first, in out-relation order, of
\* the usable relations that share the score of the chosen one, for every
\* comparator.
TieBreakFirst ==
    [][pc = "loop" =>
          \A e \in Proposed : e[2] = Min(Tied(e[1], e[2]))]_vars

\* C13 (amended): a proposal goes to the first of the tied usable relations
\* under the strict comparators greater and less, and to the last of them
\* under the non-strict greater_equal.
TieBreak ==
    [][pc = "loop" =>
          \A e \in Proposed :
              e[2] = IF compare = "greater_equal"
                     THEN Max(Tied(e[1], e[2]))
                     ELSE Min(Tied(e[1], e[2]))]_vars

\* a proposal has been made through one of two tied usable relations
TieBreakWitness ==
    /\ pc = "loop"
    /\ last.kind \in {"engage", "displace", "reject"}
    /\ \E r2 \in Unexplored(last.man) :
          preference_map[<<last.man, r2>>] =
              preference_map[<<last.man, last.woman>>]

\* a proposer marked non-free without being engaged
Exhausted(p) ==
    color_map[p] = "black" /\ ~free_map[p] /\ Partners(p) = {}

\* C14 (as claimed): on a bipartite graph a proposer becomes non-free without
\* being engaged only when it has no relation left that it has not proposed
\* through and whose reverse relation exists; from then on it stays non-free
\* and without partner, and it makes no proposal.
ExhaustedRetired ==
    [][(pc = "loop" /\ Bipartite) =>
          \A p \in Proposers :
              /\ (~Exhausted(p) /\ Exhausted(p)') => Unexplored(p) = {}
              /\ Exhausted(p) =>
                    /\ Exhausted(p)'
                    /\ \A e \in Proposed : e[1] # p]_vars

\* the relations from a proposer to a reviewer
ProposerRelations ==
    {r \in edges : color_map[r[1]] = "black" /\ color_map[r[2]] = "white"}

\* C15: in the loop on a bipartite graph no has-proposed flag goes back to
\* false, every proposal is made through a relation not proposed through
\* before, the number of proposals is at most the number of relations from a
\* proposer to a reviewer, and the number of iterations is at most that
\* number plus one retirement per proposer plus the last iteration that
\* leaves the loop.
ProposalsConsumedOnce ==
    [][(pc = "loop" /\ Bipartite) =>
          /\ \A r \in edges : has_proposed_map[r] => has_proposed_map'[r]
          /\ Cardinality(Proposed) = proposals' - proposals
          /\ proposals' = Cardinality({r \in edges : has_proposed_map'[r]})
          /\ proposals' <= Cardinality(ProposerRelations)
          /\ iterations' <= Cardinality(ProposerRelations)
                              + Cardinality(Proposers) + 1]_vars

\* every relation of the proposers has been proposed through, one proposer
\* has been retired, and the loop has been left
ProposalsConsumedOnceWitness ==
    /\ Finished
    /\ Bipartite
    /\ proposals = Cardinality(ProposerRelations)
    /\ proposals >= 2
    /\ iterations > proposals + 1

\* C16: a step in which the proposer p displaces the partner q of the
\* non-free reviewer r clears the engaged flags of q -> r and r -> q, marks q
\* free, sets the engaged flags of p -> r and r -> p, leaves p and r
\* non-free, and changes no other engaged flag and no other free mark.
DisplacementEffect ==
    [][(/\ pc = "loop"
        /\ last'.kind = "displace"
        /\ ~free_map[last'.woman]
        /\ Engaged(last'.woman, last'.prev)) =>
          \E p \in {last'.man} : \E r \in {last'.woman} : \E q \in {last'.prev} :
              /\ ~engaged_to_map'[<<q, r>>] /\ ~engaged_to_map'[<<r, q>>]
              /\ free_map'[q]
              /\ engaged_to_map'[<<p, r>>] /\ engaged_to_map'[<<r, p>>]
              /\ ~free_map'[p] /\ ~free_map'[r]
              /\ \A e \in edges \ {<<q, r>>, <<r, q>>, <<p, r>>, <<r, p>>} :
                    engaged_to_map'[e] = engaged_to_map[e]
              /\ \A v \in Vertices \ {p, q, r} : free_map'[v] = free_map[v]]_vars

\* a displacement has happened while another couple was engaged
DisplacementEffectWitness ==
    /\ pc = "loop"
    /\ Bipartite
    /\ last.kind = "displace"
    /\ free_map[last.prev] /\ Partners(last.prev) = {}
    /\ Partners(last.woman) = {last.man}
    /\ \E v \in Proposers \ {last.man, last.prev} : Partners(v) # {}

\* C17: a step in which a non-free reviewer rejects a proposal sets the
\* has-proposed flag of the relation proposed through and changes no other
\* has-proposed flag, no engaged flag and no free mark; the rejected proposer
\* is still free.
RejectionEffect ==
    [][(/\ pc = "loop"
        /\ last'.kind = "reject"
        /\ ~free_map[last'.woman]) =>
          /\ ~has_proposed_map[<<last'.man, last'.woman>>]
          /\ has_proposed_map' =
                [has_proposed_map EXCEPT ![<<last'.man, last'.woman>>] = TRUE]
          /\ engaged_to_map' = engaged_to_map
          /\ free_map' = free_map
          /\ free_map'[last'.man]]_vars

\* a reviewer has rejected a proposer and kept its partner
RejectionEffectWitness ==
    /\ pc = "loop"
    /\ Bipartite
    /\ last.kind = "reject"
    /\ free_map[last.man] /\ Partners(last.man) = {}
    /\ has_proposed_map[<<last.man, last.woman>>]
    /\ Partners(last.woman) = {last.prev}

\* C18 (as claimed): in the loop on a bipartite graph a reviewer that has a
\* partner keeps having one, its partner changes only to a proposer whose
\* score, seen from the reviewer, is strictly better under the injected
\* comparator, and no proposer that has proposed to the reviewer so far has a
\* strictly better score than its partner.
ReviewerHoldsBest ==
    [][(pc = "loop" /\ Bipartite) =>
          \A r \in Reviewers :
              /\ Partners(r) # {} => Partners(r)' # {}
              /\ \A q \in Partners(r) : \A p \in Partners(r)' :
                    p # q => Better(preference_map[<<r, p>>],
                                    preference_map[<<r, q>>])
              /\ \A q \in Partners(r)' : \A p \in Proposers :
                    (HasEdge(p, r) /\ has_proposed_map'[<<p, r>>]) =>
                        ~Better(preference_map[<<r, p>>],
                                preference_map[<<r, q>>])]_vars

\* C19: between the iterations of the loop on a bipartite graph and at its
\* end, every agent has at most one engaged outgoing relation, and no two
\* proposers are engaged to the same reviewer.
EngagementIsMatching ==
    (InLoop /\ Bipartite) =>
        /\ \A v \in Vertices : Cardinality(Partners(v)) <= 1
        /\ \A r \in Reviewers :
              Cardinality({p \in Proposers : Engaged(p, r)}) <= 1

\* two couples at the end of a run in which a proposer was displaced
EngagementIsMatchingWitness ==
    /\ Finished
    /\ Bipartite
    /\ Cardinality({p \in Proposers : Partners(p) # {}}) >= 2
    /\ \E p \in Proposers :
          /\ Partners(p) = {}
          /\ \E r \in Reviewers :
                HasEdge(p, r) /\ has_proposed_map[<<p, r>>] /\ Partners(r) # {}

\* the partner lookup of lines 216-224 is about to run for this woman
LookupPending(woman) ==
    /\ pc = "loop"
    /\ NextMan(men_iterator) # num_vertices
    /\ BestRelation(NextMan(men_iterator)).man_may_propose
    /\ BestRelation(NextMan(men_iterator)).current_prefered_woman = woman
    /\ ~free_map[woman]

\* C20: between the iterations of the loop and at its end a reviewer is
\* marked non-free exactly when one of its outgoing relations is engaged, and
\* a proposer marked free has no engaged relation; so whenever the partner of
\* a non-free reviewer is about to be looked up, the scan finds an engaged
\* out-edge before the end of her out-edges and the relation back from that
\* partner exists, and on a bipartite graph the run never reads past the end.
FreeAgreesWithEngaged ==
    pc \in {"loop", "done", "undefined"} =>
        /\ \A r \in Reviewers : ~free_map[r] <=> Partners(r) # {}
        /\ \A p \in Proposers :
              free_map[p] =>
                  /\ Partners(p) = {}
                  /\ \A r \in Vertices : ~Engaged(r, p)
        /\ \A woman \in Reviewers :
              LookupPending(woman) =>
                  /\ EngagedTargets(woman) # << >>
                  /\ HasEdge(Head(EngagedTargets(woman)), woman)
        /\ Bipartite => pc # "undefined"

\* the partner of an engaged reviewer with several relations is about to be
\* looked up while another couple is engaged
FreeAgreesWithEngagedWitness ==
    /\ pc = "loop"
    /\ Bipartite
    /\ \E woman \in Reviewers :
          /\ LookupPending(woman)
          /\ Partners(woman) # {}
          /\ Len(OutEdges(woman)) >= 2
          /\ \E r \in Reviewers \ {woman} : Partners(r) # {}

\* C21: when a second call on the same bipartite graph, scores, comparator
\* and labels has finished, whatever engaged flags it was started with (the output of
\* the first call, all false, all true), the engaged flags are those the
\* first call ended with; and after the initialization of any call every
\* engaged flag and every has-proposed flag is false and everybody is free.
ResultIndependent ==
    /\ (pc = "loop" /\ last = NoStep) =>
          /\ \A r \in edges : ~engaged_to_map[r] /\ ~has_proposed_map[r]
          /\ \A v \in Vertices : free_map[v]
    /\ (/\ Finished
        /\ Bipartite
        /\ previous.called
        /\ color_map = previous.color_map) =>
          engaged_to_map = previous.engaged_to_map

\* a second call started from all engaged flags true has finished with the
\* couples of the first call
ResultIndependentWitness ==
    /\ Finished
    /\ Bipartite
    /\ previous.called
    /\ color_map = previous.color_map
    /\ \E r \in edges : engaged_to_map[r]
    /\ \E r \in edges : ~engaged_to_map[r]
    /\ previous.restart = [r \in edges |-> TRUE]

====
